---- MODULE Spec2Model ----
(***************************************************************************)
(* Model of the scoring and profiling pipeline of student-performance-ai.  *)
(*                                                                         *)
(* Accuracies and shares are the 4-decimal values the code produces with   *)
(* .round(4); they are represented as integers in units of 1e-4            *)
(* (0.6667 is 6667, 1.0 is 10000).  A table (DataFrame) is a sequence of   *)
(* records, one record per row, in row order.                              *)
(*                                                                         *)
(* Three specifications share the variables:                               *)
(*   Spec          run_scoring_pipeline over a raw attempt table           *)
(*   SpecProfile   build_student_profile over a topic-score table and an   *)
(*                 overall table                                           *)
(*   SpecClassify  _accuracy_to_level and _label_topic over one accuracy   *)
(***************************************************************************)
EXTENDS Integers, Sequences, FiniteSets, TLC

VARIABLES
    answers_columns,  \* columns of the raw CSV read by load_raw_answers
    answers_df,       \* rows of the raw CSV
    pc,               \* position inside run_scoring_pipeline
    computed,         \* names of the aggregations computed so far
    topic_scores,     \* result of compute_student_topic_scores
    overall,          \* result of compute_student_overall_summary
    error_shares,     \* result of compute_student_topic_error_shares
    files,            \* output CSV files written so far: path -> table
    processed_dir,    \* the processed_dir argument of run_scoring_pipeline
    dirs,             \* the directories that exist
    outs,             \* the ScoreOutputs returned by run_scoring_pipeline
    error,            \* the exception raised, "" when none
    student_id,               \* argument of build_student_profile
    student_topic_scores_df,  \* argument of build_student_profile
    student_overall_df,       \* argument of build_student_profile
    prof_pc,                  \* "call", "returned" or "raised"
    profile,                  \* the StudentProfile returned
    acc,              \* argument of _accuracy_to_level / _label_topic
    level,            \* result of _accuracy_to_level, "" before the call
    label,            \* result of _label_topic, "" before the call
    weaknesses,               \* argument of generate_recommendations
    student_topic_error_df,   \* argument of generate_recommendations
    max_recommendations,      \* argument of generate_recommendations
    tie_rule,         \* order sort_values gives to rows of equal key
    rec_pc,           \* "call" or "returned"
    recs,             \* the list returned by generate_recommendations
    level_bands,      \* config.LEVEL_BANDS when _accuracy_to_level runs
    rep_pc,           \* position inside build_student_report_html
    report,           \* what build_student_report_html gives the template
    calls,            \* number of completed calls that were repeated
    previous,         \* the results of the call that was repeated
    manual_columns,   \* header line of manual_responses.csv
    manual_df,        \* rows of manual_responses.csv, cells as read
    ingest_pc,        \* "call", "returned", "raised", or "simulate"
    validated,        \* the table returned by _validate_manual_df
    sim_rows,         \* the rows simulate_answers has appended
    args,             \* the flags parsed by main
    main_pc,          \* position inside main
    disk,             \* the CSV files that exist
    raw_valid,        \* the raw answers file has the required columns
    steps             \* the pipeline steps main has called, in order

vars == <<answers_columns, answers_df, pc, computed, topic_scores, overall,
          error_shares, files, processed_dir, dirs, outs, error, student_id, student_topic_scores_df,
          student_overall_df, prof_pc, profile, acc, level, label,
          weaknesses, student_topic_error_df, max_recommendations, tie_rule,
          rec_pc, recs, level_bands, rep_pc, report, calls, previous,
          manual_columns, manual_df, ingest_pc, validated, sim_rows,
          args, main_pc, disk, raw_valid, steps>>

scoring_vars == <<answers_columns, answers_df, pc, computed, topic_scores,
                  overall, error_shares, files, processed_dir, dirs, outs, error>>
profile_vars == <<student_id, student_topic_scores_df, student_overall_df,
                  prof_pc, profile>>
classify_vars == <<acc, level, label, level_bands>>
report_vars == <<rep_pc, report>>
repeat_vars == <<calls, previous>>
ingest_vars == <<manual_columns, manual_df, ingest_pc, validated, sim_rows>>
main_vars == <<args, main_pc, disk, raw_valid, steps>>
recs_vars == <<weaknesses, student_topic_error_df, max_recommendations,
               tie_rule, rec_pc, recs>>

\* what the actions of one specification leave alone
outside_scoring == <<profile_vars, classify_vars, ingest_vars, main_vars, recs_vars, report_vars, repeat_vars>>
outside_profile == <<scoring_vars, classify_vars, ingest_vars, main_vars, recs_vars, report_vars, repeat_vars>>
outside_classify == <<scoring_vars, profile_vars, recs_vars, report_vars, repeat_vars,
                     ingest_vars, main_vars>>

----------------------------------------------------------------------------
(* Bounds of the model.                                                    *)

\* largest number of rows of a raw attempt table
MaxRows == 3

\* largest number of rows of a topic-score table given to the classifier
MaxTopicRows == 3

\* the accuracies given to the classifier functions run from -AccBelow
\* to AccHi
AccBelow == 50
AccHi == 10150

----------------------------------------------------------------------------
(* Generic helpers.                                                        *)

Abs(x) == IF x < 0 THEN -x ELSE x

\* the sequences over S of length at most n
SeqsUpTo(S, n) == UNION {[1..k -> S] : k \in 0..n}

RECURSIVE SumSeq(_)
SumSeq(s) == IF s = <<>> THEN 0 ELSE Head(s) + SumSeq(Tail(s))

----------------------------------------------------------------------------
(* The raw attempt table.                                                  *)

\* one unit of a 4-decimal value: x.round(4) is a multiple of 1/Scale
Scale == 10000

\* the columns load_raw_answers requires
Required ==
    {"student_id", "test_id", "question_id", "topic", "subskill",
     "difficulty", "correct_answer", "answer_given", "is_correct",
     "error_type", "time_seconds", "confidence"}

\* student ids and topics of the model, in the sort order of groupby
StudentOrder == <<"s1", "s2">>
TopicOrder == <<"A", "B">>
ErrorTypeOrder == <<"algebra", "none", "segno">>

StudentIds == {StudentOrder[i] : i \in DOMAIN StudentOrder}
Topics == {TopicOrder[i] : i \in DOMAIN TopicOrder}

\* the (is_correct, error_type) pairs of a row; the core does not check
\* that is_correct = 1 goes with "none", so a wrong answer marked "none"
\* is a row it can be given
Outcomes == {<<1, "none">>, <<0, "segno">>, <<0, "algebra">>, <<0, "none">>}

AttemptRows ==
    {[student_id |-> s, topic |-> t, is_correct |-> o[1], error_type |-> o[2]] :
        s \in StudentIds, t \in Topics, o \in Outcomes}

\* the header lines of the raw CSVs of the model
ColumnSets ==
    {Required,
     Required \cup {"notes"},
     Required \ {"error_type"},
     Required \ {"is_correct", "confidence"}}

----------------------------------------------------------------------------
(* scoring.py                                                              *)

\* (n / d).round(4) in units of 1e-4: the nearest multiple of 1e-4, a tie
\* going to the even one (numpy rint).  A tie needs d to be a multiple of
\* 32, so none occurs within the bounds.
Round4Floor(n, d) == (Scale * n) \div d
Round4(n, d) ==
    LET q == (Scale * n) \div d
        r == (Scale * n) % d
    IN  IF 2 * r < d THEN q
        ELSE IF 2 * r > d THEN q + 1
        ELSE IF q % 2 = 0 THEN q ELSE q + 1

\* load_raw_answers: the columns that are required and absent
MissingNone(columns) == {}
Missing(columns) == Required \ columns

\* the group keys of a groupby, in sorted order
SortedPairs(present) ==
    LET all == [k \in 1..(Len(StudentOrder) * Len(TopicOrder)) |->
                  <<StudentOrder[((k - 1) \div Len(TopicOrder)) + 1],
                    TopicOrder[((k - 1) % Len(TopicOrder)) + 1]>>]
        In(p) == p \in present
    IN  SelectSeq(all, In)

SortedStudents(present) ==
    LET In(s) == s \in present
    IN  SelectSeq(StudentOrder, In)

\* compute_student_topic_scores: one row per (student_id, topic) group
compute_student_topic_scores(df) ==
    LET keys == SortedPairs({<<df[i].student_id, df[i].topic>> : i \in DOMAIN df})
        Row(k) ==
            LET InGroup(r) == r.student_id = k[1] /\ r.topic = k[2]
                Correct(r) == InGroup(r) /\ r.is_correct = 1
            IN  [student_id |-> k[1], topic |-> k[2],
                 topic_n_questions |-> Len(SelectSeq(df, InGroup)),
                 topic_accuracy |-> Round4(Len(SelectSeq(df, Correct)), Len(SelectSeq(df, InGroup)))]
    IN  [j \in DOMAIN keys |-> Row(keys[j])]

\* compute_student_overall_summary: one row per student_id group
compute_student_overall_summary_round2(df) ==
    LET keys == SortedStudents({df[i].student_id : i \in DOMAIN df})
        Row(s) ==
            LET InGroup(r) == r.student_id = s
                Correct(r) == InGroup(r) /\ r.is_correct = 1
            IN  [student_id |-> s,
                 overall_n_questions |-> Len(SelectSeq(df, InGroup)),
                 overall_accuracy |->
                     100 * Round4(Len(SelectSeq(df, Correct)), 100 * Len(SelectSeq(df, InGroup)))]
    IN  [j \in DOMAIN keys |-> Row(keys[j])]
compute_student_overall_summary(df) ==
    LET keys == SortedStudents({df[i].student_id : i \in DOMAIN df})
        Row(s) ==
            LET InGroup(r) == r.student_id = s
                Correct(r) == InGroup(r) /\ r.is_correct = 1
            IN  [student_id |-> s,
                 overall_n_questions |-> Len(SelectSeq(df, InGroup)),
                 overall_accuracy |-> Round4(Len(SelectSeq(df, Correct)), Len(SelectSeq(df, InGroup)))]
    IN  [j \in DOMAIN keys |-> Row(keys[j])]

\* compute_student_topic_error_shares: one row per
\* (student_id, topic, error_type) group, n / total_n rounded to 4 decimals
compute_student_topic_error_shares(df) ==
    LET pairs == SortedPairs({<<df[i].student_id, df[i].topic>> : i \in DOMAIN df})
        RowsOf(k) ==
            LET InPair(r) == r.student_id = k[1] /\ r.topic = k[2]
                Present(e) == \E i \in DOMAIN df : InPair(df[i]) /\ df[i].error_type = e
                types == SelectSeq(ErrorTypeOrder, Present)
                Row(e) ==
                    LET InGroup(r) == InPair(r) /\ r.error_type = e
                    IN  [student_id |-> k[1], topic |-> k[2], error_type |-> e,
                         error_share |-> Round4(Len(SelectSeq(df, InGroup)), Len(SelectSeq(df, InPair)))]
            IN  [j \in DOMAIN types |-> Row(types[j])]
        RECURSIVE Concat(_)
        Concat(ks) == IF ks = <<>> THEN <<>> ELSE RowsOf(Head(ks)) \o Concat(Tail(ks))
    IN  Concat(pairs)

\* config.py: the processed-data directory and the three output files
PROCESSED_DATA_DIR == "data/processed"
STUDENT_TOPIC_SCORES_CSV == "data/processed/student_topic_scores.csv"
STUDENT_OVERALL_SUMMARY_CSV == "data/processed/student_overall_summary.csv"
STUDENT_TOPIC_ERROR_CSV == "data/processed/student_topic_error_matrix.csv"

\* Path.parent of an output file
parent(path) ==
    CASE path \in {STUDENT_TOPIC_SCORES_CSV, STUDENT_OVERALL_SUMMARY_CSV,
                    STUDENT_TOPIC_ERROR_CSV} -> PROCESSED_DATA_DIR

----------------------------------------------------------------------------
(* run_scoring_pipeline, one action per statement.                         *)

profile_idle ==
    /\ student_id = "s1"
    /\ student_topic_scores_df = <<>>
    /\ student_overall_df = <<>>
    /\ prof_pc = "idle"
    /\ profile = <<>>

classify_idle ==
    /\ acc = 0
    /\ level = ""
    /\ label = ""
    /\ level_bands = <<>>

report_idle ==
    /\ rep_pc = "idle"
    /\ report = <<>>

repeat_idle ==
    /\ calls = 0
    /\ previous = <<>>

ingest_idle ==
    /\ manual_columns = {}
    /\ manual_df = <<>>
    /\ ingest_pc = "idle"
    /\ validated = <<>>
    /\ sim_rows = <<>>

main_idle ==
    /\ args = <<>>
    /\ main_pc = "idle"
    /\ disk = {}
    /\ raw_valid = TRUE
    /\ steps = <<>>

recs_idle ==
    /\ weaknesses = <<>>
    /\ student_topic_error_df = <<>>
    /\ max_recommendations = 5
    /\ tie_rule = "stable"
    /\ rec_pc = "idle"
    /\ recs = <<>>

scoring_idle ==
    /\ answers_columns = Required
    /\ answers_df = <<>>
    /\ pc = "idle"
    /\ computed = {}
    /\ topic_scores = <<>>
    /\ overall = <<>>
    /\ error_shares = <<>>
    /\ files = <<>>
    /\ processed_dir = PROCESSED_DATA_DIR
    /\ dirs = {}
    /\ outs = <<>>
    /\ error = ""

Init ==
    /\ answers_columns \in ColumnSets
    /\ answers_df \in SeqsUpTo(AttemptRows, MaxRows)
    /\ pc = "mkdir"
    /\ computed = {}
    /\ topic_scores = <<>>
    /\ overall = <<>>
    /\ error_shares = <<>>
    /\ files = <<>>
    /\ processed_dir = PROCESSED_DATA_DIR
    /\ dirs = {}
    /\ outs = <<>>
    /\ error = ""
    /\ profile_idle
    /\ classify_idle
    /\ recs_idle
    /\ report_idle
    /\ repeat_idle
    /\ ingest_idle
    /\ main_idle

\* the ScoreOutputs returned at the end of run_scoring_pipeline
ScoreOutputs ==
    [student_topic_scores_csv |-> STUDENT_TOPIC_SCORES_CSV,
     student_overall_summary_csv |-> STUDENT_OVERALL_SUMMARY_CSV,
     student_topic_error_csv |-> STUDENT_TOPIC_ERROR_CSV]

\* processed_dir.mkdir(parents=True, exist_ok=True)
Mkdir ==
    /\ pc = "mkdir"
    /\ pc' = "load"
    /\ dirs' = dirs \cup {processed_dir}
    /\ UNCHANGED <<processed_dir, outs>>
    /\ UNCHANGED <<answers_columns, answers_df, computed, topic_scores, overall,
                   error_shares, files, error>>
    /\ UNCHANGED outside_scoring

\* answers_df = load_raw_answers(answers_csv)
LoadRawAnswers ==
    /\ pc = "load"
    /\ IF Missing(answers_columns) # {}
       THEN /\ pc' = "raised"
            /\ error' = "ValueError"
       ELSE /\ pc' = "topic_scores"
            /\ error' = error
    /\ UNCHANGED <<processed_dir, dirs, outs>>
    /\ UNCHANGED <<answers_columns, answers_df, computed, topic_scores, overall,
                   error_shares, files>>
    /\ UNCHANGED outside_scoring

ComputeTopicScores ==
    /\ pc = "topic_scores"
    /\ topic_scores' = compute_student_topic_scores(answers_df)
    /\ computed' = computed \cup {"topic_scores"}
    /\ pc' = "overall"
    /\ UNCHANGED <<processed_dir, dirs, outs>>
    /\ UNCHANGED <<answers_columns, answers_df, overall, error_shares, files, error>>
    /\ UNCHANGED outside_scoring

ComputeOverall ==
    /\ pc = "overall"
    /\ overall' = compute_student_overall_summary(answers_df)
    /\ computed' = computed \cup {"overall"}
    /\ pc' = "error_shares"
    /\ UNCHANGED <<processed_dir, dirs, outs>>
    /\ UNCHANGED <<answers_columns, answers_df, topic_scores, error_shares, files, error>>
    /\ UNCHANGED outside_scoring

ComputeErrorShares ==
    /\ pc = "error_shares"
    /\ error_shares' = compute_student_topic_error_shares(answers_df)
    /\ computed' = computed \cup {"error_shares"}
    /\ pc' = "write_topic_scores"
    /\ UNCHANGED <<processed_dir, dirs, outs>>
    /\ UNCHANGED <<answers_columns, answers_df, topic_scores, overall, files, error>>
    /\ UNCHANGED outside_scoring

\* topic_scores.to_csv(config.STUDENT_TOPIC_SCORES_CSV, index=False)
WriteTopicScores ==
    /\ pc = "write_topic_scores"
    /\ IF parent(STUDENT_TOPIC_SCORES_CSV) \in dirs
       THEN /\ files' = (STUDENT_TOPIC_SCORES_CSV :> topic_scores) @@ files
            /\ pc' = "write_overall"
            /\ error' = error
            /\ outs' = outs
       ELSE /\ files' = files
            /\ pc' = "raised"
            /\ error' = "OSError"
            /\ outs' = outs
    /\ UNCHANGED <<processed_dir, dirs>>
    /\ UNCHANGED <<answers_columns, answers_df, computed, topic_scores, overall,
                   error_shares>>
    /\ UNCHANGED outside_scoring

\* overall.to_csv(config.STUDENT_OVERALL_SUMMARY_CSV, index=False)
WriteOverall ==
    /\ pc = "write_overall"
    /\ IF parent(STUDENT_OVERALL_SUMMARY_CSV) \in dirs
       THEN /\ files' = (STUDENT_OVERALL_SUMMARY_CSV :> overall) @@ files
            /\ pc' = "write_error_shares"
            /\ error' = error
            /\ outs' = outs
       ELSE /\ files' = files
            /\ pc' = "raised"
            /\ error' = "OSError"
            /\ outs' = outs
    /\ UNCHANGED <<processed_dir, dirs>>
    /\ UNCHANGED <<answers_columns, answers_df, computed, topic_scores, overall,
                   error_shares>>
    /\ UNCHANGED outside_scoring

\* error_shares.to_csv(config.STUDENT_TOPIC_ERROR_CSV, index=False), which
\* raises OSError like the other two writes when the directory of the file
\* does not exist, and then return ScoreOutputs(...)
WriteErrorShares ==
    /\ pc = "write_error_shares"
    /\ IF parent(STUDENT_TOPIC_ERROR_CSV) \in dirs
       THEN /\ files' = (STUDENT_TOPIC_ERROR_CSV :> error_shares) @@ files
            /\ pc' = "done"
            /\ error' = error
            /\ outs' = ScoreOutputs
       ELSE /\ files' = files
            /\ pc' = "raised"
            /\ error' = "OSError"
            /\ outs' = outs
    /\ UNCHANGED <<processed_dir, dirs>>
    /\ UNCHANGED <<answers_columns, answers_df, computed, topic_scores, overall,
                   error_shares>>
    /\ UNCHANGED outside_scoring

Next ==
    \/ Mkdir
    \/ LoadRawAnswers
    \/ ComputeTopicScores
    \/ ComputeOverall
    \/ ComputeErrorShares
    \/ WriteTopicScores
    \/ WriteOverall
    \/ WriteErrorShares

Spec == Init /\ [][Next]_vars

----------------------------------------------------------------------------
(* run_scoring_pipeline called with a processed_dir argument, on a file    *)
(* system where data/processed does or does not exist yet.                 *)

ProcessedDirs == {PROCESSED_DATA_DIR, "out/run1"}
ExistingDirs == {{}, {PROCESSED_DATA_DIR}}

InitDirs ==
    /\ answers_columns \in ColumnSets
    /\ answers_df \in SeqsUpTo(AttemptRows, MaxRows - 1)
    /\ pc = "mkdir"
    /\ computed = {}
    /\ topic_scores = <<>>
    /\ overall = <<>>
    /\ error_shares = <<>>
    /\ files = <<>>
    /\ processed_dir \in ProcessedDirs
    /\ dirs \in ExistingDirs
    /\ outs = <<>>
    /\ error = ""
    /\ profile_idle
    /\ classify_idle
    /\ recs_idle
    /\ report_idle
    /\ repeat_idle
    /\ ingest_idle
    /\ main_idle

SpecDirs == InitDirs /\ [][Next]_vars

----------------------------------------------------------------------------
(* config.py: thresholds and bands, in units of 1e-4.                      *)

STRENGTH_ACCURACY_THRESHOLD == 8000
WEAKNESS_ACCURACY_THRESHOLD == 5500

\* LEVEL_BANDS in the insertion order of the dict; a band is lo <= acc < hi
LEVEL_BANDS_closed ==
    << [level |-> "beginner", lo |-> 0, hi |-> 5000],
       [level |-> "intermediate", lo |-> 5000, hi |-> 7500],
       [level |-> "advanced", lo |-> 7500, hi |-> 10000] >>
LEVEL_BANDS ==
    << [level |-> "beginner", lo |-> 0, hi |-> 5000],
       [level |-> "intermediate", lo |-> 5000, hi |-> 7500],
       [level |-> "advanced", lo |-> 7500, hi |-> 10100] >>

----------------------------------------------------------------------------
(* profiling.py                                                            *)

\* _accuracy_to_level: the first band that contains a, "intermediate" when
\* no band does
level_in_bands_last_match(bands, a) ==
    LET Contains(b) == b.lo <= a /\ a < b.hi
        matching == SelectSeq(bands, Contains)
    IN  IF matching # <<>> THEN matching[Len(matching)].level ELSE "intermediate"
level_in_bands(bands, a) ==
    LET Contains(b) == b.lo <= a /\ a < b.hi
        matching == SelectSeq(bands, Contains)
    IN  IF matching # <<>> THEN matching[1].level ELSE "intermediate"
accuracy_to_level(a) == level_in_bands(LEVEL_BANDS, a)

\* _label_topic
label_topic_strict(a) ==
    IF a > STRENGTH_ACCURACY_THRESHOLD THEN "strength"
    ELSE IF a <= WEAKNESS_ACCURACY_THRESHOLD THEN "weakness"
    ELSE "neutral"
label_topic(a) ==
    IF a >= STRENGTH_ACCURACY_THRESHOLD THEN "strength"
    ELSE IF a <= WEAKNESS_ACCURACY_THRESHOLD THEN "weakness"
    ELSE "neutral"

\* list.sort(key=lambda x: x.accuracy): stable, ascending
RECURSIVE SortAscending(_)
SortAscending(s) ==
    IF s = <<>> THEN <<>>
    ELSE LET sorted == SortAscending(SubSeq(s, 1, Len(s) - 1))
             x == s[Len(s)]
             k == Cardinality({i \in DOMAIN sorted : sorted[i].accuracy <= x.accuracy})
         IN  SubSeq(sorted, 1, k) \o <<x>> \o SubSeq(sorted, k + 1, Len(sorted))

\* list.sort(key=lambda x: x.accuracy, reverse=True): stable, descending
RECURSIVE SortDescending(_)
SortDescending(s) ==
    IF s = <<>> THEN <<>>
    ELSE LET sorted == SortDescending(SubSeq(s, 1, Len(s) - 1))
             x == s[Len(s)]
             k == Cardinality({i \in DOMAIN sorted : sorted[i].accuracy >= x.accuracy})
         IN  SubSeq(sorted, 1, k) \o <<x>> \o SubSeq(sorted, k + 1, Len(sorted))

\* student_overall_df.loc[student_overall_df["student_id"] == student_id]
overall_row(sid, overall_df) ==
    LET Mine(r) == r.student_id = sid
    IN  SelectSeq(overall_df, Mine)

\* student_topic_scores_df.loc[student_topic_scores_df["student_id"] == student_id]
topic_rows_unfiltered(sid, topic_df) == topic_df
topic_rows(sid, topic_df) ==
    LET Mine(r) == r.student_id = sid
    IN  SelectSeq(topic_df, Mine)

\* topic_rows.empty, the guard of the second raise
topic_rows_empty_unchecked(rows) == FALSE
topic_rows_empty(rows) == rows = <<>>

\* str(value) of a cell of a topic column.  A cell holds a string, or an
\* integer when read_csv parsed a column of numeric topic names: the
\* integer 7 is written "int:7", and str(7) is the string "7".
str_of(v) == IF v = "int:7" THEN "7" ELSE v

\* the TopicProfile built for each topic row, in row order
topic_profiles(rows) ==
    [i \in DOMAIN rows |->
        [topic |-> str_of(rows[i].topic),
         accuracy |-> rows[i].topic_accuracy,
         level |-> accuracy_to_level(rows[i].topic_accuracy),
         label |-> label_topic(rows[i].topic_accuracy)]]

\* the three lists of the profile, filtered by label and sorted
strengths_of(tps) ==
    LET Is(t) == t.label = "strength"
    IN  SortDescending(SelectSeq(tps, Is))
weaknesses_of_reversed(tps) ==
    LET Is(t) == t.label = "weakness"
    IN  SortDescending(SelectSeq(tps, Is))
weaknesses_of(tps) ==
    LET Is(t) == t.label = "weakness"
    IN  SortAscending(SelectSeq(tps, Is))
neutrals_of(tps) ==
    LET Is(t) == t.label = "neutral"
    IN  SortDescending(SelectSeq(tps, Is))

\* the StudentProfile returned when neither check raises
StudentProfile(sid, topic_df, overall_df) ==
    LET row == overall_row(sid, overall_df)
        tps == topic_profiles(topic_rows(sid, topic_df))
    IN  [student_id |-> sid,
         overall_accuracy |-> row[1].overall_accuracy,
         overall_level |-> accuracy_to_level(row[1].overall_accuracy),
         strengths |-> strengths_of(tps),
         weaknesses |-> weaknesses_of(tps),
         neutrals |-> neutrals_of(tps)]

----------------------------------------------------------------------------
(* build_student_profile over a topic-score table and an overall table.    *)

\* the topic accuracies of the tables given to the classifier
AccSamples == {4000, 5500, 6000, 7000, 8000, 9000}

TopicScoreRows ==
    {[student_id |-> s, topic |-> t, topic_accuracy |-> a] :
        s \in StudentIds, t \in Topics, a \in AccSamples}

\* the overall tables given to the classifier
OverallTables ==
    {<<>>,
     <<[student_id |-> "s1", overall_accuracy |-> 6500]>>,
     <<[student_id |-> "s2", overall_accuracy |-> 10000]>>,
     <<[student_id |-> "s2", overall_accuracy |-> 4900],
       [student_id |-> "s1", overall_accuracy |-> 7500]>>}

InitProfile ==
    /\ student_id \in StudentIds
    /\ student_topic_scores_df \in SeqsUpTo(TopicScoreRows, MaxTopicRows)
    /\ student_overall_df \in OverallTables
    /\ prof_pc = "call"
    /\ profile = <<>>
    /\ scoring_idle
    /\ classify_idle
    /\ recs_idle
    /\ report_idle
    /\ repeat_idle
    /\ ingest_idle
    /\ main_idle

\* raise ValueError("Student_id non trovato nei dati overall: ...")
RaiseNoOverallRow ==
    /\ prof_pc = "call"
    /\ overall_row(student_id, student_overall_df) = <<>>
    /\ prof_pc' = "raised"
    /\ UNCHANGED <<student_id, student_topic_scores_df, student_overall_df, profile>>
    /\ UNCHANGED outside_profile

\* raise ValueError("Nessun topic score per student_id: ...")
RaiseNoTopicRows ==
    /\ prof_pc = "call"
    /\ overall_row(student_id, student_overall_df) # <<>>
    /\ topic_rows_empty(topic_rows(student_id, student_topic_scores_df))
    /\ prof_pc' = "raised"
    /\ UNCHANGED <<student_id, student_topic_scores_df, student_overall_df, profile>>
    /\ UNCHANGED outside_profile

\* return StudentProfile(...)
ReturnProfile ==
    /\ prof_pc = "call"
    /\ overall_row(student_id, student_overall_df) # <<>>
    /\ ~topic_rows_empty(topic_rows(student_id, student_topic_scores_df))
    /\ profile' = StudentProfile(student_id, student_topic_scores_df, student_overall_df)
    /\ prof_pc' = "returned"
    /\ UNCHANGED <<student_id, student_topic_scores_df, student_overall_df>>
    /\ UNCHANGED outside_profile

NextProfile ==
    \/ RaiseNoOverallRow
    \/ RaiseNoTopicRows
    \/ ReturnProfile

SpecProfile == InitProfile /\ [][NextProfile]_vars

----------------------------------------------------------------------------
(* _accuracy_to_level and _label_topic over one accuracy.                  *)

InitClassify ==
    /\ acc \in (0 - AccBelow)..AccHi
    /\ level = ""
    /\ label = ""
    /\ level_bands = LEVEL_BANDS
    /\ scoring_idle
    /\ profile_idle
    /\ recs_idle
    /\ report_idle
    /\ repeat_idle
    /\ ingest_idle
    /\ main_idle

AccuracyToLevel ==
    /\ level = ""
    /\ level' = accuracy_to_level(acc)
    /\ UNCHANGED <<acc, label, level_bands>>
    /\ UNCHANGED outside_classify

LabelTopic ==
    /\ label = ""
    /\ label' = label_topic(acc)
    /\ UNCHANGED <<acc, level, level_bands>>
    /\ UNCHANGED outside_classify

NextClassify ==
    \/ AccuracyToLevel
    \/ LabelTopic

SpecClassify == InitClassify /\ [][NextClassify]_vars

----------------------------------------------------------------------------
(* _accuracy_to_level under other settings of config.LEVEL_BANDS.          *)

\* the default bands, bands that overlap, bands with a gap that also leave
\* out 1.0, and bands listed from the highest level down
BandConfigs ==
    {LEVEL_BANDS,
     << [level |-> "beginner", lo |-> 0, hi |-> 6000],
        [level |-> "intermediate", lo |-> 5000, hi |-> 8000],
        [level |-> "advanced", lo |-> 7500, hi |-> 10100] >>,
     << [level |-> "beginner", lo |-> 0, hi |-> 4000],
        [level |-> "advanced", lo |-> 7500, hi |-> 10000] >>,
     << [level |-> "advanced", lo |-> 5000, hi |-> 10100],
        [level |-> "intermediate", lo |-> 2500, hi |-> 7500],
        [level |-> "beginner", lo |-> 0, hi |-> 5000] >>}

InitBands ==
    /\ acc \in (0 - AccBelow)..AccHi
    /\ level = ""
    /\ label = ""
    /\ level_bands \in BandConfigs
    /\ scoring_idle
    /\ profile_idle
    /\ recs_idle
    /\ report_idle
    /\ repeat_idle
    /\ ingest_idle
    /\ main_idle

AccuracyToLevelConfigured ==
    /\ level = ""
    /\ level' = level_in_bands(level_bands, acc)
    /\ UNCHANGED <<acc, label, level_bands>>
    /\ UNCHANGED outside_classify

NextBands == AccuracyToLevelConfigured

SpecBands == InitBands /\ [][NextBands]_vars

----------------------------------------------------------------------------
(* recommendations.py                                                      *)

Reverse(s) == [i \in DOMAIN s |-> s[Len(s) + 1 - i]]

\* sort_values(column) does not fix the order of rows of equal key: with
\* rule "stable" they keep the order of the table, with rule "reversed"
\* they come out in the opposite order.  The rule is the same for every
\* call, so equal tables always sort alike.
TieRules == {"stable", "reversed"}
TieOrder(df, rule) == IF rule = "stable" THEN df ELSE Reverse(df)

\* sub.sort_values("error_share", ascending=False)
RECURSIVE StableByShareDescending(_)
StableByShareDescending(s) ==
    IF s = <<>> THEN <<>>
    ELSE LET sorted == StableByShareDescending(SubSeq(s, 1, Len(s) - 1))
             x == s[Len(s)]
             k == Cardinality({i \in DOMAIN sorted : sorted[i].error_share >= x.error_share})
         IN  SubSeq(sorted, 1, k) \o <<x>> \o SubSeq(sorted, k + 1, Len(sorted))
sort_by_error_share(df, rule) == StableByShareDescending(TieOrder(df, rule))

\* sub_scores.sort_values("topic_accuracy", ascending=True)
RECURSIVE StableByAccuracyAscending(_)
StableByAccuracyAscending(s) ==
    IF s = <<>> THEN <<>>
    ELSE LET sorted == StableByAccuracyAscending(SubSeq(s, 1, Len(s) - 1))
             x == s[Len(s)]
             k == Cardinality({i \in DOMAIN sorted : sorted[i].topic_accuracy <= x.topic_accuracy})
         IN  SubSeq(sorted, 1, k) \o <<x>> \o SubSeq(sorted, k + 1, Len(sorted))
sort_by_topic_accuracy(df, rule) == StableByAccuracyAscending(TieOrder(df, rule))

\* _top_error_types_for_topic: the top_k rows of (student_id, topic) by
\* share, as (error_type, error_share) pairs
top_error_types_for_topic_unsorted(sid, topic, error_df, top_k, rule) ==
    LET Mine(r) == r.student_id = sid /\ r.topic = topic
        sub == SelectSeq(error_df, Mine)
        head == SubSeq(sub, 1, IF Len(sub) < top_k THEN Len(sub) ELSE top_k)
    IN  [i \in DOMAIN head |-> <<head[i].error_type, head[i].error_share>>]
top_error_types_for_topic(sid, topic, error_df, top_k, rule) ==
    LET Mine(r) == r.student_id = sid /\ r.topic = topic
        sub == sort_by_error_share(SelectSeq(error_df, Mine), rule)
        head == SubSeq(sub, 1, IF Len(sub) < top_k THEN Len(sub) ELSE top_k)
    IN  [i \in DOMAIN head |-> <<head[i].error_type, head[i].error_share>>]

\* err.lower(), on the error type names of the model
Lower(err) == IF err = "Segno" THEN "segno" ELSE err

\* the if / elif chain of the loop over top_errors: the actions added to
\* how and the priorities added to priorities for one error type
ErrorActions(err) ==
    CASE err = "segno" ->
            << "Scrivi ogni passaggio e fai un check finale sui segni (+/-)",
               "Fai 10 esercizi brevi al giorno SOLO su passaggi di segno" >>
      [] err = "algebra" ->
            << "Ripassa regole base (distributiva, frazioni, scomposizione)",
               "Esercizi guidati: prima con soluzione, poi senza guardare" >>
      [] err = "formula" ->
            << "Crea una mini-scheda formule (max 10) e ripetila ogni giorno",
               "Allenati a riconoscere quale formula usare con esempi rapidi" >>
      [] err = "concetto" ->
            << "Ripasso teoria con 2-3 esempi semplici (poi aumenti difficolta)",
               "Spiega a voce il concetto in 60 secondi (se non riesci, non e chiaro)" >>
      [] err = "distrazione" ->
            << "Check finale obbligatorio: unita, segno, ordine di grandezza",
               "Riduci la velocita del 10%: prima zero errori, poi tempo" >>
      [] OTHER -> <<>>
ErrorPriorities(err) ==
    CASE err \in {"segno", "algebra", "concetto"} -> <<1>>
      [] err \in {"formula", "distrazione"} -> <<2>>
      [] OTHER -> <<>>

GenericActions_single ==
    << "Risolvi 15 esercizi del topic dal facile al medio, segnando gli errori" >>
GenericActions ==
    << "Risolvi 15 esercizi del topic dal facile al medio, segnando gli errori",
       "Dopo 2 giorni, rifai gli stessi esercizi senza guardare" >>
TimedDrill == "Aggiungi 5 esercizi a tempo (timer 60-90s) per automatizzare"

\* how and priorities after the loop over top_errors
RECURSIVE HowOfErrors(_)
HowOfErrors(top_errors) ==
    IF top_errors = <<>> THEN <<>>
    ELSE ErrorActions(Lower(Head(top_errors)[1])) \o HowOfErrors(Tail(top_errors))
RECURSIVE PrioritiesOfErrors(_)
PrioritiesOfErrors(top_errors) ==
    IF top_errors = <<>> THEN <<>>
    ELSE ErrorPriorities(Lower(Head(top_errors)[1])) \o PrioritiesOfErrors(Tail(top_errors))

\* the "Dedup suggerimenti" loop: first occurrences, in order
Dedup_keep_all(how) == how
Dedup(how) ==
    LET First(i) == \A j \in 1..(i - 1) : how[j] # how[i]
        keep == SelectSeq([i \in DOMAIN how |-> i], First)
    IN  [k \in DOMAIN keep |-> how[keep[k]]]

MinOf(priorities) ==
    CHOOSE m \in {priorities[i] : i \in DOMAIN priorities} :
        \A i \in DOMAIN priorities : m <= priorities[i]

\* f"{acc:.0%}": the accuracy as a whole percentage
Percent(a) == Round4(a, Scale * 100)

\* the thresholds of the two time rules, in seconds
SlowSeconds == 90
DrillSeconds_inclusive == 120 - 1
DrillSeconds == 120

\* the Recommendation built by one pass of the loop, for the topic row r
TopicRecommendation(sid, r, error_df, rule) ==
    LET topic == str_of(r.topic)
        top_errors == top_error_types_for_topic(sid, topic, error_df, 2, rule)
        how0 == HowOfErrors(top_errors)
        priorities0 == PrioritiesOfErrors(top_errors)
        how1 == IF how0 = <<>> THEN GenericActions ELSE how0
        priorities1 == IF how0 = <<>> THEN Append(priorities0, 2) ELSE priorities0
        slow == r.topic_avg_time_seconds > DrillSeconds
        how2 == IF slow THEN Append(how1, TimedDrill) ELSE how1
        priorities2 == IF slow THEN Append(priorities1, 2) ELSE priorities1
    IN  [title |-> <<"Migliora", topic>>,
         why |-> [text |-> "Nel topic",
                  topic |-> <<topic>>,
                  accuracy |-> <<Percent(r.topic_accuracy)>>,
                  time |-> IF r.topic_avg_time_seconds > SlowSeconds
                           THEN <<r.topic_avg_time_seconds>> ELSE <<>>,
                  errors |-> [i \in DOMAIN top_errors |-> top_errors[i][1]]],
         how |-> Dedup(how2),
         priority |-> IF priorities2 # <<>> THEN MinOf(priorities2) ELSE 2]

\* the recommendation returned when weaknesses is empty
MaintainRecommendation ==
    [title |-> <<"Mantieni il ritmo">>,
     why |-> [text |-> "Non emergono lacune marcate: continua con esercizi di consolidamento.",
              topic |-> <<>>, accuracy |-> <<>>, time |-> <<>>, errors |-> <<>>],
     how |-> << "Esercizi misti 3 volte a settimana (mix di topic)",
                "Aggiungi 1 esercizio piu difficile per topic per alzare il livello" >>,
     priority |-> 2]

\* the rows of the student whose topic is in weaknesses, by accuracy
RECURSIVE sub_scores_of_caller_order(_, _, _, _)
sub_scores_of_caller_order(sid, weak, scores_df, rule) ==
    IF weak = <<>> THEN <<>>
    ELSE LET Mine(r) == r.student_id = sid /\ r.topic = Head(weak)
         IN  SelectSeq(scores_df, Mine)
                 \o sub_scores_of_caller_order(sid, Tail(weak), scores_df, rule)
sub_scores_of(sid, weak, scores_df, rule) ==
    LET Mine(r) == r.student_id = sid
        Weak(r) == \E i \in DOMAIN weak : weak[i] = r.topic
    IN  sort_by_topic_accuracy(SelectSeq(SelectSeq(scores_df, Mine), Weak), rule)

\* the for loop over sub_scores, with its break
RECURSIVE RecsLoop(_, _, _, _, _, _)
RecsLoop(rows, done, sid, error_df, max_recs, rule) ==
    IF rows = <<>> THEN done
    ELSE LET next == Append(done, TopicRecommendation(sid, Head(rows), error_df, rule))
         IN  IF Len(next) >= max_recs THEN next
             ELSE RecsLoop(Tail(rows), next, sid, error_df, max_recs, rule)

\* recs.sort(key=lambda x: x.priority): stable
RECURSIVE SortByPriority(_)
SortByPriority_unsorted(s) == s
SortByPriority(s) ==
    IF s = <<>> THEN <<>>
    ELSE LET sorted == SortByPriority(SubSeq(s, 1, Len(s) - 1))
             x == s[Len(s)]
             k == Cardinality({i \in DOMAIN sorted : sorted[i].priority <= x.priority})
         IN  SubSeq(sorted, 1, k) \o <<x>> \o SubSeq(sorted, k + 1, Len(sorted))

generate_recommendations_no_maintain(sid, weak, error_df, scores_df, max_recs, rule) ==
    SortByPriority(RecsLoop(sub_scores_of(sid, weak, scores_df, rule), <<>>,
                            sid, error_df, max_recs, rule))
generate_recommendations(sid, weak, error_df, scores_df, max_recs, rule) ==
    IF weak = <<>> THEN <<MaintainRecommendation>>
    ELSE SortByPriority(RecsLoop(sub_scores_of(sid, weak, scores_df, rule), <<>>,
                                 sid, error_df, max_recs, rule))

----------------------------------------------------------------------------
(* generate_recommendations over its five arguments.                       *)

\* largest number of rows of a topic-score table given to the engine
MaxScoreRows == 2

\* largest number of entries of a weaknesses list
MaxWeaknesses == 2

\* topic-score rows: a weak accuracy and an average time around the two
\* time thresholds for the student s1, and one row of another student
WeakAccSamples == {3000, 5000}
AvgTimeSamples == {90, 91, 120, 121}
ScoreRows ==
    {[student_id |-> "s1", topic |-> t, topic_accuracy |-> a,
      topic_avg_time_seconds |-> tm] :
        t \in Topics, a \in WeakAccSamples, tm \in AvgTimeSamples}
    \cup {[student_id |-> "s2", topic |-> "A", topic_accuracy |-> 3000,
           topic_avg_time_seconds |-> 121]}

\* the (error_type, error_share) rows of one (student, topic)
ErrorProfilesA ==
    {<<>>,
     << <<"segno", 6000>>, <<"distrazione", 4000>> >>,
     << <<"algebra", 2000>>, <<"none", 5000>>, <<"formula", 3000>> >>,
     << <<"Segno", 6000>>, <<"segno", 4000>> >>}
ErrorProfilesB ==
    {<< <<"none", 10000>> >>,
     << <<"altro", 10000>> >>,
     << <<"distrazione", 6000>>, <<"formula", 4000>> >>,
     << <<"concetto", 5000>>, <<"formula", 2500>>, <<"algebra", 2500>> >>}

ErrorRows(sid, topic, prof) ==
    [i \in DOMAIN prof |->
        [student_id |-> sid, topic |-> topic,
         error_type |-> prof[i][1], error_share |-> prof[i][2]]]

ErrorTables ==
    {ErrorRows("s1", "A", pa)
        \o <<[student_id |-> "s2", topic |-> "A",
              error_type |-> "concetto", error_share |-> 10000]>>
        \o ErrorRows("s1", "B", pb) :
        pa \in ErrorProfilesA, pb \in ErrorProfilesB}

MaxRecommendationsSamples == {0, 1, 5}

InitRecs ==
    /\ student_id = "s1"
    /\ student_topic_scores_df \in SeqsUpTo(ScoreRows, MaxScoreRows)
    /\ student_overall_df = <<>>
    /\ prof_pc = "idle"
    /\ profile = <<>>
    /\ weaknesses \in SeqsUpTo(Topics, MaxWeaknesses)
    /\ student_topic_error_df \in ErrorTables
    /\ max_recommendations \in MaxRecommendationsSamples
    /\ tie_rule \in TieRules
    /\ rec_pc = "call"
    /\ recs = <<>>
    /\ scoring_idle
    /\ classify_idle
    /\ report_idle
    /\ repeat_idle
    /\ ingest_idle
    /\ main_idle

\* the caller's topic-score table after the call: the boolean indexing,
\* .copy() and sort_values of the function all build new tables
scores_after_generate_sorted_in_place(scores_df, rule) ==
    sort_by_topic_accuracy(scores_df, rule)
scores_after_generate(scores_df, rule) == scores_df

GenerateRecommendations ==
    /\ rec_pc = "call"
    /\ recs' = generate_recommendations(student_id, weaknesses, student_topic_error_df,
                                        student_topic_scores_df, max_recommendations,
                                        tie_rule)
    /\ student_topic_scores_df' = scores_after_generate(student_topic_scores_df, tie_rule)
    /\ rec_pc' = "returned"
    /\ UNCHANGED <<weaknesses, student_topic_error_df, max_recommendations, tie_rule>>
    /\ UNCHANGED <<student_id, student_overall_df, prof_pc, profile>>
    /\ UNCHANGED <<scoring_vars, classify_vars, ingest_vars, main_vars, report_vars, repeat_vars>>

NextRecs == GenerateRecommendations

SpecRecs == InitRecs /\ [][NextRecs]_vars

----------------------------------------------------------------------------
(* report_builder.py: build_student_report_html, up to the values it       *)
(* gives the template.                                                     *)

MaxReportRows == 2
ReportMaxRecommendations == 5

\* the topic names handed on to generate_recommendations
weaknesses_topics_strengths(p) == [i \in DOMAIN p.strengths |-> p.strengths[i].topic]
weaknesses_topics(p) == [i \in DOMAIN p.weaknesses |-> p.weaknesses[i].topic]

\* the topics shown in the table of the report
topics_for_table(p) == p.strengths \o p.neutrals \o p.weaknesses

\* the tables read by build_student_report: topics named by strings and
\* a topic named by a number
ReportTopicCells == {"A", "B", "int:7"}
ReportAccSamples == {3000, 5000, 7000, 9000}
ReportTimeSamples == {60, 121}
ReportScoreRows ==
    {[student_id |-> "s1", topic |-> t, topic_accuracy |-> a,
      topic_avg_time_seconds |-> tm] :
        t \in ReportTopicCells, a \in ReportAccSamples, tm \in ReportTimeSamples}
    \cup {[student_id |-> "s2", topic |-> "A", topic_accuracy |-> 3000,
           topic_avg_time_seconds |-> 121]}
ReportErrorTables ==
    {<<>>,
     ErrorRows("s1", "A", << <<"segno", 6000>>, <<"distrazione", 4000>> >>)
         \o ErrorRows("s1", "int:7", << <<"concetto", 10000>> >>),
     ErrorRows("s1", "B", << <<"none", 10000>> >>)
         \o ErrorRows("s2", "A", << <<"formula", 10000>> >>)}

InitReport ==
    /\ student_id = "s1"
    /\ student_topic_scores_df \in SeqsUpTo(ReportScoreRows, MaxReportRows)
    /\ student_overall_df \in OverallTables
    /\ prof_pc = "idle"
    /\ profile = <<>>
    /\ weaknesses = <<>>
    /\ student_topic_error_df \in ReportErrorTables
    /\ max_recommendations = ReportMaxRecommendations
    /\ tie_rule \in TieRules
    /\ rec_pc = "idle"
    /\ recs = <<>>
    /\ rep_pc = "call"
    /\ report = <<>>
    /\ scoring_idle
    /\ classify_idle
    /\ repeat_idle
    /\ ingest_idle
    /\ main_idle

\* build_student_profile raises and the report is not built
ReportProfileRaises ==
    /\ rep_pc = "call"
    /\ \/ overall_row(student_id, student_overall_df) = <<>>
       \/ topic_rows_empty(topic_rows(student_id, student_topic_scores_df))
    /\ rep_pc' = "raised"
    /\ UNCHANGED report
    /\ UNCHANGED <<scoring_vars, profile_vars, classify_vars, ingest_vars, main_vars, recs_vars, repeat_vars>>

\* profile = build_student_profile(student_id, topic_scores_df, overall_df)
ReportBuildProfile ==
    /\ rep_pc = "call"
    /\ overall_row(student_id, student_overall_df) # <<>>
    /\ ~topic_rows_empty(topic_rows(student_id, student_topic_scores_df))
    /\ profile' = StudentProfile(student_id, student_topic_scores_df, student_overall_df)
    /\ rep_pc' = "profile"
    /\ UNCHANGED report
    /\ UNCHANGED <<student_id, student_topic_scores_df, student_overall_df, prof_pc>>
    /\ UNCHANGED <<scoring_vars, classify_vars, ingest_vars, main_vars, recs_vars, repeat_vars>>

\* recs = generate_recommendations(..., weaknesses=weaknesses_topics, ...,
\*                                 max_recommendations=5)
ReportRecommend ==
    /\ rep_pc = "profile"
    /\ weaknesses' = weaknesses_topics(profile)
    /\ max_recommendations' = ReportMaxRecommendations
    /\ recs' = generate_recommendations(student_id, weaknesses_topics(profile),
                                        student_topic_error_df, student_topic_scores_df,
                                        ReportMaxRecommendations, tie_rule)
    /\ student_topic_scores_df' = scores_after_generate(student_topic_scores_df, tie_rule)
    /\ rep_pc' = "recommended"
    /\ UNCHANGED report
    /\ UNCHANGED <<student_topic_error_df, tie_rule, rec_pc>>
    /\ UNCHANGED <<student_id, student_overall_df, prof_pc, profile>>
    /\ UNCHANGED <<scoring_vars, classify_vars, ingest_vars, main_vars, repeat_vars>>

\* tpl.render(..., topics=topics_for_table, recommendations=[...])
ReportRender ==
    /\ rep_pc = "recommended"
    /\ report' = [student_id |-> profile.student_id,
                  overall_level |-> profile.overall_level,
                  overall_accuracy |-> profile.overall_accuracy,
                  strengths_count |-> Len(profile.strengths),
                  topics |-> topics_for_table(profile),
                  recommendations |-> recs]
    /\ rep_pc' = "rendered"
    /\ UNCHANGED <<scoring_vars, profile_vars, classify_vars, ingest_vars, main_vars, recs_vars, repeat_vars>>

NextReport ==
    \/ ReportProfileRaises
    \/ ReportBuildProfile
    \/ ReportRecommend
    \/ ReportRender

SpecReport == InitReport /\ [][NextReport]_vars

----------------------------------------------------------------------------
(* The report built from the tables the aggregator computes from one       *)
(* attempt table: main.py runs run_scoring_pipeline, then                  *)
(* build_student_report reads the three tables back.                       *)

\* largest number of attempts of one (student, topic, outcome)
MaxPerOutcome == 3

Repeat(row, n) == [i \in 1..n |-> row]

\* an attempt row that satisfies is_correct = 1 iff error_type = "none"
TimedAttempt(s, t, e, tm) ==
    [student_id |-> s, topic |-> t, is_correct |-> IF e = "none" THEN 1 ELSE 0,
     error_type |-> e, time_seconds |-> tm]

\* the attempt tables of the model: for student s1 any number up to
\* MaxPerOutcome of correct, segno and algebra attempts in topic A and of
\* correct attempts in topic B, at most one segno attempt in topic B and at
\* most one attempt of student s2, every attempt taking tm seconds
TimedTables ==
    {Repeat(TimedAttempt("s1", "A", "none", tm), an)
        \o Repeat(TimedAttempt("s1", "A", "segno", tm), as)
        \o Repeat(TimedAttempt("s2", "A", "segno", tm), other)
        \o Repeat(TimedAttempt("s1", "A", "algebra", tm), aa)
        \o Repeat(TimedAttempt("s1", "B", "none", tm), bn)
        \o Repeat(TimedAttempt("s1", "B", "segno", tm), bs) :
        an \in 0..MaxPerOutcome, as \in 0..MaxPerOutcome, aa \in 0..MaxPerOutcome,
        bn \in 0..MaxPerOutcome, bs \in 0..1, other \in 0..1, tm \in {60, 130}}

\* topic_avg_time_seconds=("time_seconds", "mean"), in whole seconds
topic_avg_time_seconds(df, s, t) ==
    LET InGroup(r) == r.student_id = s /\ r.topic = t
        group == SelectSeq(df, InGroup)
    IN  Round4(SumSeq([i \in DOMAIN group |-> group[i].time_seconds]),
               Len(group) * Scale)

\* the topic-score table with its average-time column
topic_scores_with_time(df) ==
    LET scores == compute_student_topic_scores(df)
    IN  [i \in DOMAIN scores |->
            [student_id |-> scores[i].student_id,
             topic |-> scores[i].topic,
             topic_n_questions |-> scores[i].topic_n_questions,
             topic_accuracy |-> scores[i].topic_accuracy,
             topic_avg_time_seconds |->
                 topic_avg_time_seconds(df, scores[i].student_id, scores[i].topic)]]

InitEndToEnd ==
    /\ answers_columns = Required
    /\ answers_df \in TimedTables
    /\ pc = "idle"
    /\ computed = {}
    /\ topic_scores = <<>>
    /\ overall = <<>>
    /\ error_shares = <<>>
    /\ files = <<>>
    /\ processed_dir = PROCESSED_DATA_DIR
    /\ dirs = {}
    /\ outs = <<>>
    /\ error = ""
    /\ student_id = "s1"
    /\ student_topic_scores_df = <<>>
    /\ student_overall_df = <<>>
    /\ prof_pc = "idle"
    /\ profile = <<>>
    /\ weaknesses = <<>>
    /\ student_topic_error_df = <<>>
    /\ max_recommendations = ReportMaxRecommendations
    /\ tie_rule \in TieRules
    /\ rec_pc = "idle"
    /\ recs = <<>>
    /\ rep_pc = "aggregate"
    /\ report = <<>>
    /\ classify_idle
    /\ repeat_idle
    /\ ingest_idle
    /\ main_idle

\* the three tables of the aggregator, as build_student_report reads them
AggregateForReport ==
    /\ rep_pc = "aggregate"
    /\ student_topic_scores_df' = topic_scores_with_time(answers_df)
    /\ student_overall_df' = compute_student_overall_summary(answers_df)
    /\ student_topic_error_df' = compute_student_topic_error_shares(answers_df)
    /\ rep_pc' = "call"
    /\ UNCHANGED report
    /\ UNCHANGED <<student_id, prof_pc, profile>>
    /\ UNCHANGED <<weaknesses, max_recommendations, tie_rule, rec_pc, recs>>
    /\ UNCHANGED <<scoring_vars, classify_vars, repeat_vars, ingest_vars, main_vars>>

NextEndToEnd ==
    \/ AggregateForReport
    \/ NextReport

SpecEndToEnd == InitEndToEnd /\ [][NextEndToEnd]_vars

----------------------------------------------------------------------------
(* Each core operation called a second time on the tables it was given.    *)

MaxPureRows == 2

InitPure ==
    /\ \/ Init
       \/ InitProfile
       \/ InitRecs
    /\ Len(answers_df) <= MaxPureRows
    /\ Len(student_topic_scores_df) <= MaxPureRows
    /\ max_recommendations = ReportMaxRecommendations
    /\ tie_rule = "stable"

\* the three compute_* functions are called again on answers_df
RepeatScoring ==
    /\ pc = "done"
    /\ calls = 0
    /\ previous' = <<topic_scores, overall, error_shares>>
    /\ calls' = 1
    /\ pc' = "topic_scores"
    /\ computed' = {}
    /\ topic_scores' = <<>>
    /\ overall' = <<>>
    /\ error_shares' = <<>>
    /\ UNCHANGED <<processed_dir, dirs, outs>>
    /\ UNCHANGED <<answers_columns, answers_df, files, error>>
    /\ UNCHANGED <<profile_vars, classify_vars, ingest_vars, main_vars, recs_vars, report_vars>>

\* build_student_profile is called again on the same tables
RepeatProfile ==
    /\ prof_pc = "returned"
    /\ calls = 0
    /\ previous' = <<profile>>
    /\ calls' = 1
    /\ prof_pc' = "call"
    /\ profile' = <<>>
    /\ UNCHANGED <<student_id, student_topic_scores_df, student_overall_df>>
    /\ UNCHANGED <<scoring_vars, classify_vars, ingest_vars, main_vars, recs_vars, report_vars>>

\* generate_recommendations is called again on the same arguments
RepeatRecs ==
    /\ rec_pc = "returned"
    /\ calls = 0
    /\ previous' = <<recs>>
    /\ calls' = 1
    /\ rec_pc' = "call"
    /\ recs' = <<>>
    /\ UNCHANGED <<weaknesses, student_topic_error_df, max_recommendations, tie_rule>>
    /\ UNCHANGED <<scoring_vars, profile_vars, classify_vars, ingest_vars, main_vars, report_vars>>

NextPure ==
    \/ Next
    \/ NextProfile
    \/ NextRecs
    \/ RepeatScoring
    \/ RepeatProfile
    \/ RepeatRecs

SpecPure == InitPure /\ [][NextPure]_vars

----------------------------------------------------------------------------
(* ingest_manual_test.py: _validate_manual_df, and data_generation.py:     *)
(* the rows simulate_answers appends.                                      *)

MaxManualRows == 2
MaxSimRows == 2

RequiredManual == {"question_id", "answer_given", "is_correct", "error_type"}
ALLOWED_ERROR_TYPES == {"none", "segno", "algebra", "formula", "concetto", "distrazione"}

\* .astype(str).str.strip().str.lower() on the cells of the model
strip_lower(cell) ==
    CASE cell = "NONE" -> "none"
      [] cell = " Segno " -> "segno"
      [] cell = "True" -> "true"
      [] OTHER -> cell

\* .astype(str).str.strip() on the question_id cells of the model
strip(cell) == IF cell = " q1 " THEN "q1" ELSE cell

\* _to_bool01: the mapping of the normalised cell, 2 standing for a cell
\* outside the mapping
bool01(cell) ==
    LET c == strip_lower(cell)
    IN  CASE c \in {"1", "true", "yes"} -> 1
          [] c \in {"0", "false", "no"} -> 0
          [] OTHER -> 2

\* the raise of _to_bool01
bool01_invalid(df) == \E i \in DOMAIN df : bool01(df[i].is_correct) = 2

\* the table after the three column assignments of lines 58-60
normalised(df) ==
    [i \in DOMAIN df |->
        [question_id |-> strip(df[i].question_id),
         error_type |-> strip_lower(df[i].error_type),
         is_correct |-> bool01(df[i].is_correct),
         time_seconds |-> df[i].time_seconds,
         confidence |-> df[i].confidence]]

\* bad_err, the error types outside ALLOWED_ERROR_TYPES
bad_err(df) == {df[i].error_type : i \in DOMAIN df} \ ALLOWED_ERROR_TYPES

\* a correct row whose error_type is not "none"
correct_with_error(df) ==
    \E i \in DOMAIN df : df[i].is_correct = 1 /\ df[i].error_type # "none"

\* df.loc[mask_wrong_none, "error_type"] = "distrazione"
force_wrong_none_kept(df) == df
force_wrong_none(df) ==
    [i \in DOMAIN df |->
        IF df[i].is_correct = 0 /\ df[i].error_type = "none"
        THEN [df[i] EXCEPT !.error_type = "distrazione"]
        ELSE df[i]]

\* the optional columns: created when missing, cleaned otherwise
clip(x, lo, hi) == IF x < lo THEN lo ELSE IF x > hi THEN hi ELSE x
fill_optional(df, columns) ==
    [i \in DOMAIN df |->
        [df[i] EXCEPT
            !.time_seconds = IF "time_seconds" \in columns THEN @ ELSE 60,
            !.confidence = IF "confidence" \in columns THEN clip(@, 1, 5) ELSE 3]]

\* the cells of manual_responses.csv in the model
IsCorrectCells == {"1", "0", "True", "no", "maybe"}
ErrorTypeCells == {"none", "NONE", " Segno ", "distrazione", "boh"}
ManualRows ==
    {[question_id |-> " q1 ", is_correct |-> c, error_type |-> e,
      time_seconds |-> 45, confidence |-> 7] :
        c \in IsCorrectCells, e \in ErrorTypeCells}
ManualColumnSets ==
    {RequiredManual,
     RequiredManual \cup {"time_seconds", "confidence"},
     RequiredManual \ {"error_type"}}

InitManual ==
    /\ manual_columns \in ManualColumnSets
    /\ manual_df \in SeqsUpTo(ManualRows, MaxManualRows)
    /\ ingest_pc = "call"
    /\ validated = <<>>
    /\ sim_rows = <<>>

InitSimulate ==
    /\ manual_columns = {}
    /\ manual_df = <<>>
    /\ ingest_pc = "simulate"
    /\ validated = <<>>
    /\ sim_rows = <<>>

InitIngest ==
    /\ \/ InitManual
       \/ InitSimulate
    /\ scoring_idle
    /\ profile_idle
    /\ classify_idle
    /\ recs_idle
    /\ report_idle
    /\ repeat_idle
    /\ main_idle

outside_ingest ==
    <<scoring_vars, profile_vars, classify_vars, recs_vars, report_vars,
      repeat_vars, main_vars>>

\* raise ValueError("manual_responses.csv manca colonne: ...")
ValidateRaisesMissingColumns ==
    /\ ingest_pc = "call"
    /\ RequiredManual \ manual_columns # {}
    /\ ingest_pc' = "raised"
    /\ UNCHANGED <<manual_columns, manual_df, validated, sim_rows>>
    /\ UNCHANGED outside_ingest

\* raise ValueError("La colonna is_correct deve contenere ...")
ValidateRaisesIsCorrect ==
    /\ ingest_pc = "call"
    /\ RequiredManual \ manual_columns = {}
    /\ bool01_invalid(manual_df)
    /\ ingest_pc' = "raised"
    /\ UNCHANGED <<manual_columns, manual_df, validated, sim_rows>>
    /\ UNCHANGED outside_ingest

\* raise ValueError("error_type non valido: ...")
ValidateRaisesErrorType ==
    /\ ingest_pc = "call"
    /\ RequiredManual \ manual_columns = {}
    /\ ~bool01_invalid(manual_df)
    /\ bad_err(normalised(manual_df)) # {}
    /\ ingest_pc' = "raised"
    /\ UNCHANGED <<manual_columns, manual_df, validated, sim_rows>>
    /\ UNCHANGED outside_ingest

\* raise ValueError("Se is_correct=1 allora error_type deve essere 'none'...")
ValidateRaisesCorrectWithError ==
    /\ ingest_pc = "call"
    /\ RequiredManual \ manual_columns = {}
    /\ ~bool01_invalid(manual_df)
    /\ bad_err(normalised(manual_df)) = {}
    /\ correct_with_error(normalised(manual_df))
    /\ ingest_pc' = "raised"
    /\ UNCHANGED <<manual_columns, manual_df, validated, sim_rows>>
    /\ UNCHANGED outside_ingest

\* return df
ValidateReturns ==
    /\ ingest_pc = "call"
    /\ RequiredManual \ manual_columns = {}
    /\ ~bool01_invalid(manual_df)
    /\ bad_err(normalised(manual_df)) = {}
    /\ ~correct_with_error(normalised(manual_df))
    /\ validated' = fill_optional(force_wrong_none(normalised(manual_df)), manual_columns)
    /\ ingest_pc' = "returned"
    /\ UNCHANGED <<manual_columns, manual_df, sim_rows>>
    /\ UNCHANGED outside_ingest

\* data_generation.py
ERROR_TYPES == <<"none", "distrazione", "segno", "algebra", "formula", "concetto">>
SimTopics == {"Algebra", "Funzioni", "Derivate", "Fisica_Dinamica"}

\* the probabilities of choose_error_type, in percent
error_probs(topic) ==
    CASE topic = "Algebra" -> <<0, 15, 35, 35, 10, 5>>
      [] topic = "Derivate" -> <<0, 10, 10, 15, 40, 25>>
      [] topic \in {"Fisica_Dinamica", "Fisica_Energia"} -> <<0, 10, 5, 10, 25, 50>>
      [] OTHER -> <<0, 20, 15, 20, 20, 25>>

\* the values rng.choice(ERROR_TYPES, p=probs) can return
choose_error_type(topic) ==
    {ERROR_TYPES[i] : i \in {j \in DOMAIN ERROR_TYPES : error_probs(topic)[j] > 0}}

\* one pass of the inner loop of simulate_answers: the draw of is_correct
\* and of the error type, and rows.append(...)
SimulateAnswer ==
    /\ ingest_pc = "simulate"
    /\ Len(sim_rows) < MaxSimRows
    /\ \E topic \in SimTopics, is_correct \in {0, 1} :
           \E error_type \in (IF is_correct = 1 THEN {"none"}
                              ELSE choose_error_type(topic)) :
               sim_rows' = Append(sim_rows,
                   [student_id |-> "student_0001", topic |-> topic,
                    is_correct |-> is_correct, error_type |-> error_type])
    /\ UNCHANGED <<manual_columns, manual_df, ingest_pc, validated>>
    /\ UNCHANGED outside_ingest

NextIngest ==
    \/ ValidateRaisesMissingColumns
    \/ ValidateRaisesIsCorrect
    \/ ValidateRaisesErrorType
    \/ ValidateRaisesCorrectWithError
    \/ ValidateReturns
    \/ SimulateAnswer

SpecIngest == InitIngest /\ [][NextIngest]_vars

----------------------------------------------------------------------------
(* main.py: the steps of main on a disk that holds some of the CSV files.  *)

STUDENT_ANSWERS_CSV == "data/raw/student_answers.csv"
QUESTIONS_BANK_CSV == "data/raw/questions_bank.csv"
ProcessedFiles ==
    {STUDENT_TOPIC_SCORES_CSV, STUDENT_OVERALL_SUMMARY_CSV, STUDENT_TOPIC_ERROR_CSV}

StepFlags == {"--generate-data", "--score", "--report"}

\* parse_args() and the "one command" default of lines 57-60
parsed(argv) ==
    IF argv \cap StepFlags = {}
    THEN [argv |-> argv, generate_data |-> TRUE, score |-> TRUE, report |-> TRUE]
    ELSE [argv |-> argv,
          generate_data |-> "--generate-data" \in argv,
          score |-> "--score" \in argv,
          report |-> "--report" \in argv]

\* the condition of line 77: one of the processed files does not exist
processed_missing_all(d) == ProcessedFiles \cap d = {}
processed_missing(d) == ~(ProcessedFiles \subseteq d)

\* run_scoring_pipeline() completes when the raw answers file exists and
\* has the required columns, and then the three processed files exist;
\* otherwise load_raw_answers raises before anything is written
scoring_completes(d, valid) == STUDENT_ANSWERS_CSV \in d /\ valid

InitMain ==
    /\ args \in {[argv |-> a, generate_data |-> FALSE, score |-> FALSE, report |-> FALSE] :
                    a \in SUBSET StepFlags}
    /\ main_pc = "parse"
    /\ disk \in SUBSET ({STUDENT_ANSWERS_CSV} \cup ProcessedFiles)
    /\ raw_valid \in BOOLEAN
    /\ steps = <<>>
    /\ scoring_idle
    /\ profile_idle
    /\ classify_idle
    /\ recs_idle
    /\ report_idle
    /\ repeat_idle
    /\ ingest_idle

outside_main ==
    <<scoring_vars, profile_vars, classify_vars, recs_vars, report_vars,
      repeat_vars, ingest_vars>>

\* args = parse_args() and the default of all three steps
ParseArgs ==
    /\ main_pc = "parse"
    /\ args' = parsed(args.argv)
    /\ main_pc' = "generate"
    /\ UNCHANGED <<disk, raw_valid, steps>>
    /\ UNCHANGED outside_main

\* if args.generate_data: generate_and_save_synthetic_dataset()
GenerateData ==
    /\ main_pc = "generate"
    /\ IF args.generate_data
       THEN /\ disk' = disk \cup {QUESTIONS_BANK_CSV, STUDENT_ANSWERS_CSV}
            /\ raw_valid' = TRUE
            /\ steps' = Append(steps, "generate_data")
       ELSE UNCHANGED <<disk, raw_valid, steps>>
    /\ main_pc' = "score"
    /\ UNCHANGED args
    /\ UNCHANGED outside_main

\* if args.score: outs = run_scoring_pipeline()
Score ==
    /\ main_pc = "score"
    /\ IF ~args.score
       THEN /\ main_pc' = "report"
            /\ UNCHANGED <<disk, steps>>
       ELSE IF scoring_completes(disk, raw_valid)
       THEN /\ disk' = disk \cup ProcessedFiles
            /\ steps' = Append(steps, "score")
            /\ main_pc' = "report"
       ELSE /\ main_pc' = "raised"
            /\ UNCHANGED <<disk, steps>>
    /\ UNCHANGED <<args, raw_valid>>
    /\ UNCHANGED outside_main

\* if args.report: the check of the processed files, with the automatic
\* run_scoring_pipeline() when one is missing
CheckProcessed ==
    /\ main_pc = "report"
    /\ IF ~args.report
       THEN /\ main_pc' = "done"
            /\ UNCHANGED <<disk, steps>>
       ELSE IF ~processed_missing(disk)
       THEN /\ main_pc' = "build_report"
            /\ UNCHANGED <<disk, steps>>
       ELSE IF scoring_completes(disk, raw_valid)
       THEN /\ disk' = disk \cup ProcessedFiles
            /\ steps' = Append(steps, "score")
            /\ main_pc' = "build_report"
       ELSE /\ main_pc' = "raised"
            /\ UNCHANGED <<disk, steps>>
    /\ UNCHANGED <<args, raw_valid>>
    /\ UNCHANGED outside_main

\* out_path = build_student_report(...)
BuildReport ==
    /\ main_pc = "build_report"
    /\ steps' = Append(steps, "report")
    /\ main_pc' = "done"
    /\ UNCHANGED <<args, disk, raw_valid>>
    /\ UNCHANGED outside_main

NextMain ==
    \/ ParseArgs
    \/ GenerateData
    \/ Score
    \/ CheckProcessed
    \/ BuildReport

SpecMain == InitMain /\ [][NextMain]_vars

----------------------------------------------------------------------------
(* Properties of the aggregator.                                           *)

\* the attempts of student s in topic t, and the correct ones among them
NAttempts(s, t) ==
    Cardinality({i \in DOMAIN answers_df :
        answers_df[i].student_id = s /\ answers_df[i].topic = t})
NCorrect(s, t) ==
    Cardinality({i \in DOMAIN answers_df :
        /\ answers_df[i].student_id = s /\ answers_df[i].topic = t
        /\ answers_df[i].is_correct = 1})

PairsPresent == {<<answers_df[i].student_id, answers_df[i].topic>> : i \in DOMAIN answers_df}

\* sum of the error_share column over the rows of (s, t)
ShareSum(s, t) ==
    LET InPair(r) == r.student_id = s /\ r.topic = t
        sub == SelectSeq(error_shares, InPair)
    IN  SumSeq([i \in DOMAIN sub |-> sub[i].error_share])

\* sum of topic_n_questions, and of topic_n_questions * topic_accuracy,
\* over the topic rows of student s
TopicNSum(s) ==
    LET Mine(r) == r.student_id = s
        sub == SelectSeq(topic_scores, Mine)
    IN  SumSeq([i \in DOMAIN sub |-> sub[i].topic_n_questions])
TopicWeightedSum(s) ==
    LET Mine(r) == r.student_id = s
        sub == SelectSeq(topic_scores, Mine)
    IN  SumSeq([i \in DOMAIN sub |-> sub[i].topic_n_questions * sub[i].topic_accuracy])

\* C1: for every (student_id, topic) pair of the attempt table, the
\* error_share values returned for the pair sum to 1.0 within 1e-6
\* (units of 1e-4: the sum is within 0.01 of 10000).
C1_SharesSumToOne ==
    "error_shares" \in computed =>
        \A k \in PairsPresent : 100 * Abs(ShareSum(k[1], k[2]) - Scale) <= 1

\* C2: the overall_accuracy of every student differs from
\* correct / attempts by less than 1e-6, i.e.
\* |overall_accuracy * attempts - correct| < attempts * 1e-6.
C2_OverallAccuracyExact ==
    "overall" \in computed =>
        \A i \in DOMAIN overall :
            LET s == overall[i].student_id
                n == SumSeq([j \in DOMAIN TopicOrder |-> NAttempts(s, TopicOrder[j])])
                c == SumSeq([j \in DOMAIN TopicOrder |-> NCorrect(s, TopicOrder[j])])
            IN  100 * Abs(overall[i].overall_accuracy * n - Scale * c) < n

C4_OneRowPerPair ==
    "topic_scores" \in computed =>
        /\ \A k \in PairsPresent :
               Cardinality({i \in DOMAIN topic_scores :
                   topic_scores[i].student_id = k[1] /\ topic_scores[i].topic = k[2]}) = 1
        /\ \A i \in DOMAIN topic_scores :
               LET r == topic_scores[i]
                   n == NAttempts(r.student_id, r.topic)
                   c == NCorrect(r.student_id, r.topic)
               IN  /\ <<r.student_id, r.topic>> \in PairsPresent
                   /\ r.topic_n_questions = n
                   /\ n > 0
                   /\ 2 * Abs(r.topic_accuracy * n - Scale * c) <= n
                   /\ (n = 3 /\ c = 2) => r.topic_accuracy = 6667

\* a pair with 2 correct attempts of 3
C4_Witness ==
    /\ "topic_scores" \in computed
    /\ Len(topic_scores) = 1
    /\ topic_scores[1].topic_n_questions = 3
    /\ topic_scores[1].topic_accuracy = 6667

\* C5: when the raw table lacks a required column, run_scoring_pipeline
\* raises before any aggregation is computed and writes no output table.
C5_SchemaErrorBeforeAggregation ==
    Required \ answers_columns # {} =>
        /\ pc \in {"mkdir", "load", "raised"}
        /\ computed = {}
        /\ DOMAIN files = {}
        /\ pc = "raised" => error = "ValueError"

\* the pipeline has raised on a non-empty table that lacks a column
C5_Witness ==
    /\ pc = "raised"
    /\ error = "ValueError"
    /\ "error_type" \notin answers_columns
    /\ Len(answers_df) > 0

----------------------------------------------------------------------------
(* Properties of the profile classifier.                                   *)

\* the rows of the requested student in the two tables
HasOverallRow ==
    \E i \in DOMAIN student_overall_df : student_overall_df[i].student_id = student_id
StudentTopicRowIndexes ==
    {i \in DOMAIN student_topic_scores_df :
        student_topic_scores_df[i].student_id = student_id}

\* number of elements of list l with topic t and accuracy a
CountIn(l, t, a) ==
    Cardinality({i \in DOMAIN l : l[i].topic = t /\ l[i].accuracy = a})

\* C6: build_student_profile raises, and returns no profile, whenever the
\* student has no overall row or no topic row; every profile returned has
\* at least one topic across its three lists.
C6_NotFoundRaises ==
    /\ (prof_pc # "call" /\ (~HasOverallRow \/ StudentTopicRowIndexes = {})) =>
           prof_pc = "raised" /\ profile = <<>>
    /\ prof_pc = "returned" =>
           Len(profile.strengths) + Len(profile.weaknesses) + Len(profile.neutrals) >= 1

\* the call raised for a student with an overall row and no topic row
C6_Witness ==
    /\ prof_pc = "raised"
    /\ HasOverallRow
    /\ StudentTopicRowIndexes = {}
    /\ student_topic_scores_df # <<>>

\* C7: in every profile returned, weaknesses is sorted by accuracy
\* ascending, strengths and neutrals by accuracy descending, for every
\* adjacent pair of each list.
C7_ListsSorted ==
    prof_pc = "returned" =>
        /\ \A i \in 1..(Len(profile.weaknesses) - 1) :
               profile.weaknesses[i].accuracy <= profile.weaknesses[i + 1].accuracy
        /\ \A i \in 1..(Len(profile.strengths) - 1) :
               profile.strengths[i].accuracy >= profile.strengths[i + 1].accuracy
        /\ \A i \in 1..(Len(profile.neutrals) - 1) :
               profile.neutrals[i].accuracy >= profile.neutrals[i + 1].accuracy

\* two weak topics of different accuracy, given with the less severe first
C7_Witness ==
    /\ prof_pc = "returned"
    /\ Len(profile.weaknesses) = 2
    /\ profile.weaknesses[1].accuracy < profile.weaknesses[2].accuracy
    /\ LET mine == topic_rows(student_id, student_topic_scores_df)
       IN  mine[1].topic_accuracy > mine[2].topic_accuracy

\* C8: the three lists partition the student's topic rows by label: every
\* element of a list carries the label of the list, which is the label of
\* its accuracy; every (topic, accuracy) occurs in the lists as often as
\* in the student's rows, so no row of another student is included and the
\* lengths add up; accuracies 0.9 and 0.4 give one strength and one
\* weakness.
C8_PartitionByLabel ==
    prof_pc = "returned" =>
        /\ \A i \in DOMAIN profile.strengths :
               /\ profile.strengths[i].label = "strength"
               /\ profile.strengths[i].accuracy >= STRENGTH_ACCURACY_THRESHOLD
        /\ \A i \in DOMAIN profile.weaknesses :
               /\ profile.weaknesses[i].label = "weakness"
               /\ profile.weaknesses[i].accuracy <= WEAKNESS_ACCURACY_THRESHOLD
        /\ \A i \in DOMAIN profile.neutrals :
               /\ profile.neutrals[i].label = "neutral"
               /\ profile.neutrals[i].accuracy > WEAKNESS_ACCURACY_THRESHOLD
               /\ profile.neutrals[i].accuracy < STRENGTH_ACCURACY_THRESHOLD
        /\ Len(profile.strengths) + Len(profile.weaknesses) + Len(profile.neutrals)
               = Cardinality(StudentTopicRowIndexes)
        /\ \A t \in Topics, a \in AccSamples :
               CountIn(profile.strengths, t, a) + CountIn(profile.weaknesses, t, a)
                   + CountIn(profile.neutrals, t, a)
               = Cardinality({i \in StudentTopicRowIndexes :
                     /\ student_topic_scores_df[i].topic = t
                     /\ student_topic_scores_df[i].topic_accuracy = a})
        /\ ({student_topic_scores_df[i].topic_accuracy : i \in StudentTopicRowIndexes}
                = {9000, 4000}
            /\ Cardinality(StudentTopicRowIndexes) = 2) =>
               Len(profile.strengths) = 1 /\ Len(profile.weaknesses) = 1

\* topics A at 0.9 and B at 0.4 for the student, next to a row of another
\* student
C8_Witness ==
    /\ prof_pc = "returned"
    /\ Len(student_topic_scores_df) = 3
    /\ Cardinality(StudentTopicRowIndexes) = 2
    /\ Len(profile.strengths) = 1
    /\ profile.strengths[1].topic = "A"
    /\ profile.strengths[1].accuracy = 9000
    /\ Len(profile.weaknesses) = 1
    /\ profile.weaknesses[1].topic = "B"
    /\ profile.weaknesses[1].accuracy = 4000

\* C9: accuracy >= 0.80 gives "strength", accuracy <= 0.55 gives
\* "weakness", every other accuracy gives "neutral"; the two conditions
\* are never both true, so exactly one label applies.
C9_LabelConsistent ==
    label # "" =>
        /\ acc >= STRENGTH_ACCURACY_THRESHOLD => label = "strength"
        /\ acc <= WEAKNESS_ACCURACY_THRESHOLD => label = "weakness"
        /\ (acc > WEAKNESS_ACCURACY_THRESHOLD /\ acc < STRENGTH_ACCURACY_THRESHOLD) =>
               label = "neutral"
        /\ ~(acc >= STRENGTH_ACCURACY_THRESHOLD /\ acc <= WEAKNESS_ACCURACY_THRESHOLD)
        /\ label \in {"strength", "weakness", "neutral"}

\* an accuracy of exactly 0.80 was labelled
C9_Witness ==
    /\ acc = STRENGTH_ACCURACY_THRESHOLD
    /\ label = "strength"

\* rank of a level in beginner < intermediate < advanced
LevelRank(l) ==
    IF l = "beginner" THEN 1 ELSE IF l = "intermediate" THEN 2 ELSE 3

\* C10: with the default bands every accuracy in [0, 1] gets the level of
\* the single band containing it: beginner on [0, 0.50), intermediate on
\* [0.50, 0.75), advanced on [0.75, 1.0]; no accuracy of [0, 1] is outside
\* every band, and the level does not decrease when the accuracy grows.
C10_LevelBands ==
    (level # "" /\ acc >= 0 /\ acc <= Scale) =>
        /\ acc < 5000 => level = "beginner"
        /\ (acc >= 5000 /\ acc < 7500) => level = "intermediate"
        /\ acc >= 7500 => level = "advanced"
        /\ Cardinality({i \in DOMAIN LEVEL_BANDS :
               LEVEL_BANDS[i].lo <= acc /\ acc < LEVEL_BANDS[i].hi}) = 1
        /\ \E i \in DOMAIN LEVEL_BANDS :
               /\ LEVEL_BANDS[i].lo <= acc /\ acc < LEVEL_BANDS[i].hi
               /\ LEVEL_BANDS[i].level = level
        /\ acc >= 1 => LevelRank(accuracy_to_level(acc - 1)) <= LevelRank(level)

\* an accuracy of exactly 1.0 was classified
C10_Witness ==
    /\ acc = Scale
    /\ level = "advanced"

----------------------------------------------------------------------------
(* Properties of the recommendation engine.                                *)

\* the topics named in the weaknesses argument
WeakTopics == {weaknesses[i] : i \in DOMAIN weaknesses}

\* the topic-score rows of the student whose topic is in weaknesses
WeakRowIndexes ==
    {i \in DOMAIN student_topic_scores_df :
        /\ student_topic_scores_df[i].student_id = student_id
        /\ student_topic_scores_df[i].topic \in WeakTopics}

\* the error-share rows of the student in topic t
ErrorRowIndexes(t) ==
    {i \in DOMAIN student_topic_error_df :
        /\ student_topic_error_df[i].student_id = student_id
        /\ student_topic_error_df[i].topic = t}

\* the topic, the accuracy (in percent) and the average time a
\* recommendation reports; the time is reported only above SlowSeconds
RecTopic(rec) == rec.title[2]
RecAccuracy(rec) == rec.why.accuracy[1]
RecHasDrillTime(rec) == rec.why.time # <<>> /\ rec.why.time[1] > 120

\* C12: with an empty weaknesses list generate_recommendations returns
\* exactly one recommendation, of priority 2 and with a non-empty how
\* list, whatever the other arguments are.
C12_MaintainWhenNoWeakness ==
    (rec_pc = "returned" /\ weaknesses = <<>>) =>
        /\ Len(recs) = 1
        /\ recs[1].priority = 2
        /\ recs[1].how # <<>>

\* an empty weaknesses list next to a non-empty table and a cap of 0
C12_Witness ==
    /\ rec_pc = "returned"
    /\ weaknesses = <<>>
    /\ Len(student_topic_scores_df) = 2
    /\ max_recommendations = 0
    /\ Len(recs) = 1

\* C13: for a non-negative max_recommendations and a non-empty weaknesses
\* list the result has at most max_recommendations entries and, when the
\* table has one row per (student, topic), at most one entry per topic.
C13_AtMostMaxRecommendations ==
    (rec_pc = "returned" /\ weaknesses # <<>> /\ max_recommendations >= 0) =>
        /\ Len(recs) <= max_recommendations
        /\ (\A i, j \in DOMAIN student_topic_scores_df :
                (/\ student_topic_scores_df[i].student_id = student_topic_scores_df[j].student_id
                 /\ student_topic_scores_df[i].topic = student_topic_scores_df[j].topic)
                    => i = j)
            => \A i, j \in DOMAIN recs : RecTopic(recs[i]) = RecTopic(recs[j]) => i = j

\* C14: the list returned is sorted by priority ascending, and among
\* recommendations of equal priority the topics are in ascending accuracy.
C14_SortedByPriority ==
    (rec_pc = "returned" /\ weaknesses # <<>>) =>
        \A i, j \in DOMAIN recs :
            i < j =>
                /\ recs[i].priority <= recs[j].priority
                /\ recs[i].priority = recs[j].priority =>
                       RecAccuracy(recs[i]) <= RecAccuracy(recs[j])

\* the less severe topic comes first because its priority is 1
C14_Witness ==
    /\ rec_pc = "returned"
    /\ Len(recs) = 2
    /\ recs[1].priority = 1
    /\ recs[2].priority = 2
    /\ RecAccuracy(recs[1]) > RecAccuracy(recs[2])

\* the priority contribution the error-type table gives to a type
TableContribution(err) ==
    IF err \in {"segno", "algebra", "concetto"} THEN {1}
    ELSE IF err \in {"formula", "distrazione"} THEN {2}
    ELSE {}

\* the error types of the student in topic t that have one of the two
\* largest shares (fewer than two rows have a larger share)
TwoLargest(t) ==
    {Lower(student_topic_error_df[i].error_type) : i \in
        {i \in ErrorRowIndexes(t) :
            Cardinality({j \in ErrorRowIndexes(t) :
                student_topic_error_df[j].error_share
                    > student_topic_error_df[i].error_share}) < 2}}

SharesDistinct(t) ==
    \A i, j \in ErrorRowIndexes(t) :
        student_topic_error_df[i].error_share = student_topic_error_df[j].error_share
            => i = j

SetMin(S) == CHOOSE m \in S : \A x \in S : m <= x

\* C15: for a weak topic with pairwise distinct error shares the priority
\* is the minimum of the contributions of the two largest-share error
\* types, of the generic fallback (2, when those types gave no action) and
\* of the timed drill (2), and 2 when nothing contributed; shares
\* segno 0.6 and distrazione 0.4 give the four sign-check and
\* distraction-check actions and priority 1.
C15_PriorityIsMinimum ==
    (rec_pc = "returned" /\ weaknesses # <<>>) =>
        \A i \in DOMAIN recs :
            LET t == RecTopic(recs[i])
                fromTypes == UNION {TableContribution(e) : e \in TwoLargest(t)}
                all == fromTypes
                        \cup (IF fromTypes = {} THEN {2} ELSE {})
                        \cup (IF RecHasDrillTime(recs[i]) THEN {2} ELSE {})
            IN  SharesDistinct(t) =>
                    /\ recs[i].priority = (IF all = {} THEN 2 ELSE SetMin(all))
                    /\ ({<<student_topic_error_df[k].error_type,
                           student_topic_error_df[k].error_share>> : k \in ErrorRowIndexes(t)}
                            = {<<"segno", 6000>>, <<"distrazione", 4000>>}
                        /\ Cardinality(ErrorRowIndexes(t)) = 2) =>
                           /\ recs[i].priority = 1
                           /\ Len(recs[i].how) >= 4
                           /\ SubSeq(recs[i].how, 1, 4) =
                                  << "Scrivi ogni passaggio e fai un check finale sui segni (+/-)",
                                     "Fai 10 esercizi brevi al giorno SOLO su passaggi di segno",
                                     "Check finale obbligatorio: unita, segno, ordine di grandezza",
                                     "Riduci la velocita del 10%: prima zero errori, poi tempo" >>

\* a topic whose largest shares are "none" and formula, algebra being
\* third, got priority 2
C15_Witness ==
    /\ rec_pc = "returned"
    /\ weaknesses # <<>>
    /\ \E i \in DOMAIN recs :
           /\ RecTopic(recs[i]) = "A"
           /\ TwoLargest("A") = {"none", "formula"}
           /\ Cardinality(ErrorRowIndexes("A")) = 3
           /\ recs[i].priority = 2

\* the actions collected for a recommendation before the deduplication
CollectedHow(rec) ==
    LET top == top_error_types_for_topic(student_id, RecTopic(rec),
                                         student_topic_error_df, 2, tie_rule)
        fromTypes == (IF Len(top) >= 1 THEN ErrorActions(Lower(top[1][1])) ELSE <<>>)
                     \o (IF Len(top) >= 2 THEN ErrorActions(Lower(top[2][1])) ELSE <<>>)
    IN  (IF fromTypes = <<>> THEN GenericActions ELSE fromTypes)
            \o (IF RecHasDrillTime(rec) THEN <<TimedDrill>> ELSE <<>>)

FirstAt(seq, x) == CHOOSE i \in DOMAIN seq : seq[i] = x /\ \A j \in 1..(i - 1) : seq[j] # x

\* C16: in every recommendation the how list is non-empty, has no action
\* twice, and lists the collected actions in first-occurrence order.
C16_HowDistinctInOrder ==
    rec_pc = "returned" =>
        \A i \in DOMAIN recs :
            /\ recs[i].how # <<>>
            /\ \A a, b \in DOMAIN recs[i].how :
                   recs[i].how[a] = recs[i].how[b] => a = b
            /\ weaknesses # <<>> =>
                   LET collected == CollectedHow(recs[i])
                   IN  /\ {recs[i].how[a] : a \in DOMAIN recs[i].how}
                              = {collected[a] : a \in DOMAIN collected}
                       /\ \A a, b \in DOMAIN recs[i].how :
                              a < b => FirstAt(collected, recs[i].how[a])
                                           < FirstAt(collected, recs[i].how[b])

\* the two top error types map to the same actions, which appear once,
\* followed by the timed drill
C16_Witness ==
    /\ rec_pc = "returned"
    /\ \E i \in DOMAIN recs :
           /\ weaknesses # <<>>
           /\ Len(CollectedHow(recs[i])) = 5
           /\ Len(recs[i].how) = 3
           /\ recs[i].how[3] = TimedDrill

\* C17: when a topic of the weaknesses argument has no topic-score row for
\* the student, generate_recommendations does not return a list.
C17_MissingMatchIsAnError ==
    rec_pc = "returned" =>
        \A t \in WeakTopics :
            \E i \in DOMAIN student_topic_scores_df :
                /\ student_topic_scores_df[i].student_id = student_id
                /\ student_topic_scores_df[i].topic = t

\* C20: every weaknesses list with the same set of topics gives the list
\* that was returned, and the recommendations are those of the most severe
\* topics: fewer rows than there are recommendations have a lower
\* accuracy than a recommended topic.
C20_CallerOrderIgnored ==
    (rec_pc = "returned" /\ weaknesses # <<>>) =>
        /\ \A w \in SeqsUpTo(Topics, MaxWeaknesses) :
               {w[i] : i \in DOMAIN w} = WeakTopics =>
                   generate_recommendations(student_id, w, student_topic_error_df,
                                            student_topic_scores_df,
                                            max_recommendations, tie_rule) = recs
        /\ \A i \in DOMAIN recs :
               Cardinality({k \in WeakRowIndexes :
                   Percent(student_topic_scores_df[k].topic_accuracy)
                       < RecAccuracy(recs[i])}) < Len(recs)

\* weaknesses given less severe topic first, with a cap of one: the
\* recommendation is for the more severe topic
C20_Witness ==
    /\ rec_pc = "returned"
    /\ Len(weaknesses) = 2
    /\ weaknesses[1] # weaknesses[2]
    /\ max_recommendations = 1
    /\ Len(recs) = 1
    /\ \E k \in WeakRowIndexes :
           /\ student_topic_scores_df[k].topic = weaknesses[1]
           /\ Percent(student_topic_scores_df[k].topic_accuracy) > RecAccuracy(recs[1])
    /\ RecTopic(recs[1]) = weaknesses[2]

----------------------------------------------------------------------------
(* Properties of the band lookup and of the report.                        *)

\* the bands of the configuration that contain the accuracy
MatchingBandIndexes ==
    {i \in DOMAIN level_bands : level_bands[i].lo <= acc /\ acc < level_bands[i].hi}

\* C11: _accuracy_to_level always returns a level: "intermediate" for an
\* accuracy in no configured band, otherwise the level of the first band,
\* in configuration order, that contains the accuracy.
C11_FirstMatchOrFallback ==
    level # "" =>
        /\ MatchingBandIndexes = {} => level = "intermediate"
        /\ MatchingBandIndexes # {} =>
               \E i \in MatchingBandIndexes :
                   /\ \A j \in MatchingBandIndexes : i <= j
                   /\ level = level_bands[i].level

\* an accuracy in two overlapping bands got the level of the first, and
\* it is not the fallback level
C11_Witness ==
    /\ level = "advanced"
    /\ Cardinality(MatchingBandIndexes) = 2
    /\ level_bands[2].level = "intermediate"
    /\ 2 \in MatchingBandIndexes

\* C18: a report rendered by build_student_report_html, which is one for
\* which build_student_profile succeeded, is given at least one
\* recommendation.
C18_ReportHasRecommendation ==
    rep_pc = "rendered" => Len(report.recommendations) >= 1

\* the tables and the list the operations receive
OperationInputs ==
    <<answers_df, student_topic_scores_df, student_overall_df,
      student_topic_error_df, weaknesses>>

\* the results of the operation that was called again, once it has
\* finished again
SecondResults ==
    IF pc = "done" THEN <<topic_scores, overall, error_shares>>
    ELSE IF prof_pc = "returned" THEN <<profile>>
    ELSE IF rec_pc = "returned" THEN <<recs>>
    ELSE previous

----------------------------------------------------------------------------
(* Properties of the time rules and of the generic fallback.               *)

\* the topic-score rows a recommendation can come from: the rows of the
\* student with the recommendation's topic, when there is just one
RowsOf(rec) ==
    {k \in WeakRowIndexes :
        /\ str_of(student_topic_scores_df[k].topic) = RecTopic(rec)
        /\ \A j \in WeakRowIndexes :
               student_topic_scores_df[j].topic = student_topic_scores_df[k].topic
                   => j = k}

HasTimedDrill(rec) == \E h \in DOMAIN rec.how : rec.how[h] = TimedDrill

\* C22: the why text has the time clause exactly when the average time of
\* the topic is above 90 seconds, the how list has the timed drill exactly
\* when it is above 120 seconds, then as its last element and with a
\* priority of at most 2; a recommendation with the drill has the clause.
C22_StrictTimeThresholds ==
    (rec_pc = "returned" /\ weaknesses # <<>>) =>
        \A i \in DOMAIN recs :
            /\ HasTimedDrill(recs[i]) => recs[i].why.time # <<>>
            /\ \A k \in RowsOf(recs[i]) :
                   LET t == student_topic_scores_df[k].topic_avg_time_seconds
                   IN  /\ (recs[i].why.time # <<>>) <=> (t > 90)
                       /\ recs[i].why.time # <<>> => recs[i].why.time = <<t>>
                       /\ HasTimedDrill(recs[i]) <=> (t > 120)
                       /\ t > 120 =>
                              /\ recs[i].how[Len(recs[i].how)] = TimedDrill
                              /\ recs[i].priority <= 2

\* a topic of exactly 120 seconds has the clause and no drill, next to a
\* topic of exactly 90 seconds that has neither
C22_Witness ==
    /\ rec_pc = "returned"
    /\ Len(recs) = 2
    /\ \E i, j \in DOMAIN recs :
           /\ recs[i].why.time = <<120>>
           /\ ~HasTimedDrill(recs[i])
           /\ recs[j].why.time = <<>>
           /\ \E k \in RowsOf(recs[j]) :
                  student_topic_scores_df[k].topic_avg_time_seconds = 90

\* the two largest-share error types of topic t give no action: there is
\* no row, or each is "none" or outside the table of error types
NoActionTopic(t) == \A e \in TwoLargest(t) : TableContribution(e) = {}

----------------------------------------------------------------------------
(* Properties of the output files of the pipeline.                         *)

\* the three paths of the returned ScoreOutputs
ReturnedPaths ==
    {outs.student_topic_scores_csv, outs.student_overall_summary_csv,
     outs.student_topic_error_csv}

\* C26: every file run_scoring_pipeline has written is inside the
\* processed_dir it was given, and when it returns the three returned
\* paths are the files written, all of them in that directory.
C26_WritesInsideProcessedDir ==
    /\ \A path \in DOMAIN files : parent(path) = processed_dir
    /\ pc = "done" =>
           /\ ReturnedPaths = DOMAIN files
           /\ Cardinality(ReturnedPaths) = 3

----------------------------------------------------------------------------
(* Properties of the attempt rows handed to the core.                      *)

\* C21: in every row of a table returned by _validate_manual_df and in
\* every row appended by simulate_answers, is_correct is 1 exactly when
\* error_type is "none".
C21_CorrectIffNone ==
    /\ ingest_pc = "returned" =>
           \A i \in DOMAIN validated :
               (validated[i].is_correct = 1) <=> (validated[i].error_type = "none")
    /\ \A i \in DOMAIN sim_rows :
           (sim_rows[i].is_correct = 1) <=> (sim_rows[i].error_type = "none")

\* a returned table with a wrong answer that came in marked "NONE" and
\* went out as "distrazione", next to a correct answer
C21_Witness ==
    /\ ingest_pc = "returned"
    /\ Len(validated) = 2
    /\ \E i, j \in DOMAIN validated :
           /\ manual_df[i].is_correct = "no"
           /\ manual_df[i].error_type = "NONE"
           /\ validated[i].error_type = "distrazione"
           /\ validated[j].is_correct = 1

----------------------------------------------------------------------------
(* Properties of the entry point.                                          *)

StepRank(step) ==
    CASE step = "generate_data" -> 1
      [] step = "score" -> 2
      [] step = "report" -> 3

StepsCalled == {steps[i] : i \in DOMAIN steps}

\* C25: the steps main has called are in the order generate-data, score,
\* report; build_student_report is about to be called only when the three
\* processed files exist, the pipeline having completed first if one was
\* missing; a finished run has called the selected steps, and all three
\* when no step flag was given.
C25_StepOrder ==
    /\ \A i, j \in DOMAIN steps : i < j => StepRank(steps[i]) <= StepRank(steps[j])
    /\ main_pc = "build_report" => ProcessedFiles \subseteq disk
    /\ "report" \in StepsCalled => ProcessedFiles \subseteq disk
    /\ main_pc = "done" =>
           /\ "generate_data" \in StepsCalled <=> args.generate_data
           /\ "report" \in StepsCalled <=> args.report
           /\ args.score => "score" \in StepsCalled
           /\ args.argv = {} => steps = <<"generate_data", "score", "report">>

\* only --report was given and one processed file was missing: the
\* pipeline ran before the report
C25_Witness ==
    /\ main_pc = "done"
    /\ args.argv = {"--report"}
    /\ steps = <<"score", "report">>

----------------------------------------------------------------------------
(* Properties of the recommendations built from the aggregator's tables.   *)

HowSet(rec) == {rec.how[h] : h \in DOMAIN rec.how}
ActionSet(err) == {ErrorActions(err)[h] : h \in DOMAIN ErrorActions(err)}

\* the share of error type e among the error rows of the student in topic
\* t, 0 when there is no such row
ShareOf(t, e) ==
    LET rows == {k \in ErrorRowIndexes(t) : student_topic_error_df[k].error_type = e}
    IN  IF rows = {} THEN 0
        ELSE student_topic_error_df[CHOOSE k \in rows : TRUE].error_share

\* C24: when the tables come from the aggregator run on one attempt table
\* whose rows have is_correct = 1 iff error_type = "none", every weak topic
\* of the profile gets a recommendation, none of them uses the generic
\* steps, and each holds the actions of an error type the student really
\* made in that topic.
C24_NoGenericFallback ==
    (rep_pc \in {"recommended", "rendered"} /\ answers_df # <<>> /\ weaknesses # <<>>) =>
        /\ Len(recs) = Len(weaknesses)
        /\ \A i \in DOMAIN recs :
               /\ HowSet(recs[i]) \cap {GenericActions[h] : h \in DOMAIN GenericActions} = {}
               /\ \E k \in DOMAIN answers_df :
                      /\ answers_df[k].student_id = student_id
                      /\ answers_df[k].topic = RecTopic(recs[i])
                      /\ answers_df[k].is_correct = 0
                      /\ ActionSet(answers_df[k].error_type) # {}
                      /\ ActionSet(answers_df[k].error_type) \subseteq HowSet(recs[i])

\* a weak topic in which "none" has a larger share than segno and than
\* algebra, and whose recommendation has priority 1
C24_Witness ==
    /\ rep_pc = "rendered"
    /\ weaknesses # <<>>
    /\ answers_df # <<>>
    /\ \E i \in DOMAIN recs :
           /\ RecTopic(recs[i]) = "A"
           /\ ShareOf("A", "none") > ShareOf("A", "segno")
           /\ ShareOf("A", "none") > ShareOf("A", "algebra")
           /\ ShareOf("A", "segno") > 0
           /\ recs[i].priority = 1

====
